---------------------------- MODULE Spec2Model ----------------------------
(***************************************************************************)
(* HayMQ: the AMQP-0.9.1-style header check and frame parser               *)
(* (src/src/protocol.rs) and the per-connection session that drives them   *)
(* (src/src/connection.rs).                                                *)
(*                                                                         *)
(* Bytes are the integers 0..255.  A u32 taken from the wire is kept as    *)
(* its two 16-bit halves, so that every length up to 2^32-1 is             *)
(* representable.                                                          *)
(***************************************************************************)
EXTENDS Integers, Sequences, FiniteSets, TLC

VARIABLES
    pc,          \* where handle_connection is suspended, or how it returned
    stream,      \* every byte the peer sends on this connection (history)
    socket_in,   \* the bytes of stream the session has not read yet
    socket_out,  \* the responses written to the peer, in order
    header_buf,  \* connection.rs:7
    header_res,  \* the value matched at connection.rs:9
    incoming,    \* connection.rs:34, the bytes of the latest read
    parsed,      \* the value matched at connection.rs:35
    received,    \* the frames logged at connection.rs:37, in order
    nreads,      \* positive-length reads completed in the loop (history)
    last_io,     \* how the latest socket operation of the session ended
    listener,    \* main.rs: the accept loop
    tasks        \* main.rs: the spawned tasks, one session each

\* The state of main.rs, which a single session leaves alone.
server_vars == <<listener, tasks>>

vars == <<pc, stream, socket_in, socket_out, header_buf, header_res,
          incoming, parsed, received, nreads, last_io, server_vars>>

---------------------------------------------------------------------------
(* Bounds of the model.                                                    *)

\* The peer sends at most this many frame-shaped segments after the header.
MaxFrames == 2

\* Longest payload of an input handed directly to parse_amqp_frame.
MaxPayload == 2

---------------------------------------------------------------------------
(* Program constants.                                                      *)

\* A read buffer of twice the size.
BufSize_doubled == 4096 + 4096

\* connection.rs:19, vec![0u8; 4096]
BufSize == 4096

\* protocol.rs:58, the frame-end marker 0xCE
FrameEnd == 206

\* protocol.rs:20, b"AMQP\x00\x00\x09\x01"
expected == <<65, 77, 81, 80, 0, 0, 9, 1>>

MsgInvalidHeader == "Invalid AMQP header"
MsgFrameReceived == "Frame received"
MsgInvalidFrame == "Invalid frame"

ErrHeaderTooShort == "AMQP header too short"
ErrHeaderInvalid == "Invalid AMQP header"
ErrInputTooShort == "Input too short for a valid frame"
ErrFrameHeader == "Failed to parse frame header"
ErrNotEnough == "Not enough bytes for payload + frame-end"
ErrFrameEnd == "Invalid frame-end marker, expected 0xCE"

\* The panics of the slice operations of protocol.rs:56-57.
PanicSplitAt == "panic: split_at: mid > len"
PanicIndex == "panic: index out of bounds"

---------------------------------------------------------------------------
(* Result values.                                                          *)

NoFrame == [frame_type |-> -1, channel |-> -1, payload |-> <<>>]

NoResult == [ok |-> FALSE, err |-> "not called", frame |-> NoFrame]

Ok(f) == [ok |-> TRUE, err |-> "", frame |-> f]

Err(e) == [ok |-> FALSE, err |-> e, frame |-> NoFrame]

AmqpFrame(t, c, p) == [frame_type |-> t, channel |-> c, payload |-> p]

---------------------------------------------------------------------------
(* protocol.rs                                                             *)

Take(s, n) == SubSeq(s, 1, n)

Drop(s, n) == SubSeq(s, n + 1, Len(s))

starts_with(s, prefix) ==
    /\ Len(s) >= Len(prefix)
    /\ Take(s, Len(prefix)) = prefix

\* parse_amqp_header comparing the protocol name only, not the version.
parse_amqp_header_name_only(input) ==
    IF Len(input) < Len(expected)
    THEN Err(ErrHeaderTooShort)
    ELSE IF starts_with(input, Take(expected, 4))
         THEN Ok(NoFrame)
         ELSE Err(ErrHeaderInvalid)

parse_amqp_header(input) ==
    IF Len(input) < Len(expected)
    THEN Err(ErrHeaderTooShort)
    ELSE IF starts_with(input, expected)
         THEN Ok(NoFrame)
         ELSE Err(ErrHeaderInvalid)

be_u16(hi, lo) == hi * 256 + lo

\* be_u32 of four bytes, as its two 16-bit halves.
be_u32(b3, b2, b1, b0) == [hi |-> be_u16(b3, b2), lo |-> be_u16(b1, b0)]

\* The same comparison where usize is 32 bits wide and the addition wraps:
\* payload_len + 1 is 0 for payload_len = 2^32 - 1.
LessThanLenPlusOne_usize32(len, payload_len) ==
    IF payload_len.hi = 65535 /\ payload_len.lo = 65535
    THEN FALSE
    ELSE IF payload_len.hi >= 32768
         THEN TRUE
         ELSE len <= payload_len.hi * 65536 + payload_len.lo

\* remainder.len() < payload_len as usize + 1, usize 64 bits wide; len is a
\* sequence length of the model, far below 2^31.
LessThanLenPlusOne(len, payload_len) ==
    IF payload_len.hi >= 32768
    THEN TRUE
    ELSE len <= payload_len.hi * 65536 + payload_len.lo

\* parse_amqp_frame asking for a payload byte: the minimum size off by one.
parse_amqp_frame_min9(input) ==
    IF Len(input) < 9
    THEN Err(ErrInputTooShort)
    ELSE LET payload_len == be_u32(input[4], input[5], input[6], input[7])
             remainder == Drop(input, 7)
         IN  IF LessThanLenPlusOne(Len(remainder), payload_len)
             THEN Err(ErrNotEnough)
             ELSE LET n == payload_len.hi * 65536 + payload_len.lo
                  IN  IF Drop(remainder, n)[1] # FrameEnd
                      THEN Err(ErrFrameEnd)
                      ELSE Ok(AmqpFrame(input[1], be_u16(input[2], input[3]),
                                        Take(remainder, n)))

\* parse_amqp_frame without the frame-end check of protocol.rs:58-60.
parse_amqp_frame_any_end(input) ==
    IF Len(input) < 8
    THEN Err(ErrInputTooShort)
    ELSE LET payload_len == be_u32(input[4], input[5], input[6], input[7])
             remainder == Drop(input, 7)
         IN  IF LessThanLenPlusOne(Len(remainder), payload_len)
             THEN Err(ErrNotEnough)
             ELSE LET n == payload_len.hi * 65536 + payload_len.lo
                  IN  Ok(AmqpFrame(input[1], be_u16(input[2], input[3]),
                                   Take(remainder, n)))

\* split_at(mid) panics when mid > len.
SplitAtPanics(len, payload_len) ==
    IF payload_len.hi >= 32768
    THEN TRUE
    ELSE payload_len.hi * 65536 + payload_len.lo > len

\* A panic unwinds out of parse_amqp_frame: it is neither Ok nor a returned
\* Err, and is kept apart from them by its message.
parse_amqp_frame(input) ==
    IF Len(input) < 8
    THEN Err(ErrInputTooShort)
    ELSE IF Len(input) < 7
    THEN Err(ErrFrameHeader)
    ELSE LET frame_type == input[1]
             channel == be_u16(input[2], input[3])
             payload_len == be_u32(input[4], input[5], input[6], input[7])
             remainder == Drop(input, 7)
         IN  IF LessThanLenPlusOne(Len(remainder), payload_len)
             THEN Err(ErrNotEnough)
             ELSE IF SplitAtPanics(Len(remainder), payload_len)
             THEN Err(PanicSplitAt)
             ELSE LET n == payload_len.hi * 65536 + payload_len.lo
                      payload == Take(remainder, n)
                      last_byte == Drop(remainder, n)
                  IN  IF last_byte = <<>>
                      THEN Err(PanicIndex)
                      ELSE LET frame_end == last_byte[1]
                           IN  IF frame_end # FrameEnd
                               THEN Err(ErrFrameEnd)
                               ELSE Ok(AmqpFrame(frame_type, channel,
                                                 payload))

---------------------------------------------------------------------------
(* What the peer may send.                                                 *)

u16_be(c) == <<c \div 256, c % 256>>

u32_be(n) == <<0, (n \div 65536) % 256, (n \div 256) % 256, n % 256>>

\* The wire layout documented at protocol.rs:33-38, with terminator byte e.
Encode(t, c, p, e) == <<t>> \o u16_be(c) \o u32_be(Len(p)) \o p \o <<e>>

Segments ==
    { Encode(1, 1, <<>>, FrameEnd),
      Encode(1, 1, <<10, 11, 12>>, FrameEnd),
      Encode(2, 258, <<206>>, FrameEnd),
      Encode(1, 1, <<10, 11, 12>>, 171),
      Encode(2, 258, <<>>, 0) }

RECURSIVE Bodies(_)
Bodies(n) ==
    IF n = 0
    THEN {<<>>}
    ELSE Bodies(n - 1) \cup {b \o s : b \in Bodies(n - 1), s \in Segments}

Headers == { expected, <<65, 77, 81, 80, 0, 0, 9, 0>>, <<65, 77, 81, 80>> }

Streams == {h \o b : h \in Headers, b \in Bodies(MaxFrames)}

---------------------------------------------------------------------------
(* connection.rs: handle_connection                                        *)

Init ==
    /\ pc = "AwaitingHeader"
    /\ stream \in Streams
    /\ socket_in = stream
    /\ socket_out = <<>>
    /\ header_buf = <<0, 0, 0, 0, 0, 0, 0, 0>>
    /\ header_res = NoResult
    /\ incoming = <<>>
    /\ parsed = NoResult
    /\ received = <<>>
    /\ nreads = 0
    /\ last_io = "none"
    /\ listener = "none"
    /\ tasks = <<>>

\* The session carrying on after a failed socket operation.
AfterIoError_ignored == "FramingLoop"

\* connection.rs:8, 14, 30, 38, 42: `?` and `return Err` end the session.
AfterIoError == "Failed"

\* The loop without its Ok(0) arm: the empty read is parsed and answered.
AfterEof_parsed == "InvalidFrameWrite"

\* connection.rs:22-26: a read of 0 bytes returns Ok(()).
AfterEof == "Closed"

\* The match of connection.rs:9 falling through to the loop in both arms.
AfterHeader_fallthrough(res) == "FramingLoop"

\* connection.rs:9-17, where the match on parse_amqp_header leads.
AfterHeader(res) == IF res.ok THEN "FramingLoop" ELSE "HeaderErrorWrite"

\* connection.rs:8-17.  read_exact fills header_buf with the first 8 bytes or
\* fails (the peer closed before 8 bytes, or a transport error) and `?` returns.
ReadHeader ==
    /\ pc = "AwaitingHeader"
    /\ \/ /\ Len(socket_in) >= 8
          /\ header_buf' = Take(socket_in, 8)
          /\ socket_in' = Drop(socket_in, 8)
          /\ header_res' = parse_amqp_header(header_buf')
          /\ pc' = AfterHeader(header_res')
          /\ last_io' = "read"
       \/ /\ Len(socket_in) < 8
          /\ socket_in' = <<>>
          /\ pc' = AfterIoError
          /\ last_io' = "eof"
          /\ UNCHANGED <<header_buf, header_res>>
       \/ /\ pc' = AfterIoError
          /\ last_io' = "read_error"
          /\ UNCHANGED <<socket_in, header_buf, header_res>>
    /\ UNCHANGED <<stream, socket_out, incoming, parsed, received, nreads,
                   server_vars>>

\* connection.rs:14-15
WriteHeaderError ==
    /\ pc = "HeaderErrorWrite"
    /\ \/ /\ socket_out' = Append(socket_out, MsgInvalidHeader)
          /\ pc' = "Failed"
          /\ last_io' = "write"
       \/ /\ pc' = AfterIoError
          /\ last_io' = "write_error"
          /\ UNCHANGED socket_out
    /\ UNCHANGED <<stream, socket_in, header_buf, header_res, incoming,
                   parsed, received, nreads, server_vars>>

\* The Err arm of connection.rs:40-43 without its write.
AfterParse_silent_error(res) ==
    IF res.ok THEN "FrameReceivedWrite" ELSE "FramingLoop"

\* connection.rs:35-44, where the match on parse_amqp_frame leads.
AfterParse(res) == IF res.ok THEN "FrameReceivedWrite" ELSE "InvalidFrameWrite"

\* connection.rs:36-37, the frame is logged only in the Ok arm.
Deliver(log, res) == IF res.ok THEN Append(log, res.frame) ELSE log

\* connection.rs:21-37, the read returning a number of bytes in sizes.
ReadFrameOf(sizes) ==
    /\ pc = "FramingLoop"
    /\ \/ /\ socket_in = <<>>
          /\ pc' = AfterEof
          /\ last_io' = "eof"
          /\ UNCHANGED <<socket_in, incoming, parsed, received, nreads>>
       \/ /\ \E n \in sizes :
                /\ n >= 1
                /\ n <= Len(socket_in)
                /\ n <= BufSize
                /\ incoming' = Take(socket_in, n)
                /\ socket_in' = Drop(socket_in, n)
          /\ parsed' = parse_amqp_frame(incoming')
          /\ received' = Deliver(received, parsed')
          /\ nreads' = nreads + 1
          /\ pc' = AfterParse(parsed')
          /\ last_io' = "read"
       \/ /\ pc' = AfterIoError
          /\ last_io' = "read_error"
          /\ UNCHANGED <<socket_in, incoming, parsed, received, nreads>>
    /\ UNCHANGED <<stream, socket_out, header_buf, header_res, server_vars>>

\* connection.rs:21-37, the read returning any number of the bytes in flight.
ReadFrame == ReadFrameOf(1..Len(socket_in))

\* connection.rs:20 and 38/42: after a response is written the loop reads again.
AfterWrite == "FramingLoop"

\* connection.rs:38
WriteFrameReceived ==
    /\ pc = "FrameReceivedWrite"
    /\ \/ /\ socket_out' = Append(socket_out, MsgFrameReceived)
          /\ pc' = AfterWrite
          /\ last_io' = "write"
       \/ /\ pc' = AfterIoError
          /\ last_io' = "write_error"
          /\ UNCHANGED socket_out
    /\ UNCHANGED <<stream, socket_in, header_buf, header_res, incoming,
                   parsed, received, nreads, server_vars>>

\* connection.rs:42
WriteInvalidFrame ==
    /\ pc = "InvalidFrameWrite"
    /\ \/ /\ socket_out' = Append(socket_out, MsgInvalidFrame)
          /\ pc' = AfterWrite
          /\ last_io' = "write"
       \/ /\ pc' = AfterIoError
          /\ last_io' = "write_error"
          /\ UNCHANGED socket_out
    /\ UNCHANGED <<stream, socket_in, header_buf, header_res, incoming,
                   parsed, received, nreads, server_vars>>

Next ==
    \/ ReadHeader
    \/ WriteHeaderError
    \/ ReadFrame
    \/ WriteFrameReceived
    \/ WriteInvalidFrame

Spec == Init /\ [][Next]_vars

---------------------------------------------------------------------------
(* The session fed frames as large as the read buffer and one byte larger. *)

\* The largest payload whose encoding (7-byte prefix, payload, terminator)
\* fits one read of connection.rs:19-21.
MaxAckedPayload == 4088

MaxBigReads == 3

Zeros(n) == [i \in 1..n |-> 0]

\* The frame whose encoding fills the buffer exactly.
FullFrame == AmqpFrame(1, 1, Zeros(MaxAckedPayload))

\* The frame whose encoding is one byte longer than the buffer.  Its last 8
\* bytes, 00 00 00 00 00 00 00 CE, are the encoding of an empty frame.
OversizedFrame == AmqpFrame(1, 1, Zeros(MaxAckedPayload + 1))

EncodeFrame(f) == Encode(f.frame_type, f.channel, f.payload, FrameEnd)

BigBodies ==
    { EncodeFrame(OversizedFrame),
      EncodeFrame(FullFrame),
      EncodeFrame(FullFrame) \o EncodeFrame(OversizedFrame) }

BigStreams == {h \o b : h \in Headers, b \in BigBodies}

\* The numbers of bytes a read is offered around the two ends of the buffer.
BigReadSizes ==
    { 1, 7, 8, 9, MaxAckedPayload, MaxAckedPayload + 1, MaxAckedPayload + 7,
      MaxAckedPayload + 8, MaxAckedPayload + 9 }

BigInit ==
    /\ pc = "AwaitingHeader"
    /\ stream \in BigStreams
    /\ socket_in = stream
    /\ socket_out = <<>>
    /\ header_buf = <<0, 0, 0, 0, 0, 0, 0, 0>>
    /\ header_res = NoResult
    /\ incoming = <<>>
    /\ parsed = NoResult
    /\ received = <<>>
    /\ nreads = 0
    /\ last_io = "none"
    /\ listener = "none"
    /\ tasks = <<>>

\* connection.rs:21-37, at most MaxBigReads reads of data.
BigReadFrame ==
    ReadFrameOf(IF nreads < MaxBigReads THEN BigReadSizes ELSE {})

BigNext ==
    \/ ReadHeader
    \/ WriteHeaderError
    \/ BigReadFrame
    \/ WriteFrameReceived
    \/ WriteInvalidFrame

SpecBig == BigInit /\ [][BigNext]_vars

---------------------------------------------------------------------------
(* main.rs: the accept loop and one task per accepted connection, each     *)
(* task running handle_connection on its own socket.  tasks[c] is the      *)
(* state of the session of the c-th accepted connection.                   *)

MaxConns == 2

session_vars ==
    <<pc, stream, socket_in, socket_out, header_buf, header_res, incoming,
      parsed, received, nreads, last_io>>

ConnStreams ==
    { expected \o Encode(1, 1, <<>>, FrameEnd),
      expected \o Encode(2, 258, <<>>, 0) \o Encode(1, 1, <<>>, FrameEnd),
      <<65, 77, 81, 80, 0, 0, 9, 0>>,
      <<65, 77, 81, 80>> }

\* The numbers of bytes a read of a task is offered: half a frame, a frame.
ConnReadSizes == {4, 8}

\* connection.rs:6-7, the session as spawned at main.rs:19-20.
NewTask(s) ==
    [ pc |-> "AwaitingHeader", socket_in |-> s, socket_out |-> <<>>,
      header_res |-> NoResult, incoming |-> <<>>, parsed |-> NoResult,
      received |-> <<>>, last_io |-> "none" ]

\* connection.rs:8-17 on the session t, as ReadHeader.
ReadHeaderOutcomes(t) ==
    (IF Len(t.socket_in) >= 8
     THEN LET res == parse_amqp_header(Take(t.socket_in, 8))
          IN  { [t EXCEPT !.socket_in = Drop(t.socket_in, 8),
                          !.header_res = res,
                          !.pc = AfterHeader(res),
                          !.last_io = "read"] }
     ELSE { [t EXCEPT !.socket_in = <<>>,
                      !.pc = AfterIoError,
                      !.last_io = "eof"] })
    \cup { [t EXCEPT !.pc = AfterIoError, !.last_io = "read_error"] }

\* connection.rs:14, 38, 42: write_all of msg, then next, or `?`.
WriteOutcomes(t, msg, next) ==
    { [t EXCEPT !.socket_out = Append(t.socket_out, msg),
                !.pc = next,
                !.last_io = "write"],
      [t EXCEPT !.pc = AfterIoError, !.last_io = "write_error"] }

\* A session that keeps the bytes of a read that did not parse and decodes
\* them together with the bytes of the next read.
ReadData_buffered(t, n) ==
    LET inc == Take(t.socket_in, n)
        res == IF t.parsed # NoResult /\ ~t.parsed.ok
               THEN parse_amqp_frame(t.incoming \o inc)
               ELSE parse_amqp_frame(inc)
    IN  [t EXCEPT !.incoming = inc,
                  !.socket_in = Drop(t.socket_in, n),
                  !.parsed = res,
                  !.received = Deliver(t.received, res),
                  !.pc = AfterParse(res),
                  !.last_io = "read"]

\* connection.rs:27, 34-37: a read of n bytes and the parse of those bytes.
ReadData(t, n) ==
    LET inc == Take(t.socket_in, n)
        res == parse_amqp_frame(inc)
    IN  [t EXCEPT !.incoming = inc,
                  !.socket_in = Drop(t.socket_in, n),
                  !.parsed = res,
                  !.received = Deliver(t.received, res),
                  !.pc = AfterParse(res),
                  !.last_io = "read"]

\* connection.rs:21-37 on the session t, as ReadFrameOf(ConnReadSizes).
ReadFrameOutcomes(t) ==
    (IF t.socket_in = <<>>
     THEN { [t EXCEPT !.pc = AfterEof, !.last_io = "eof"] }
     ELSE { ReadData(t, n) :
              n \in {m \in ConnReadSizes :
                        m <= Len(t.socket_in) /\ m <= BufSize} })
    \cup { [t EXCEPT !.pc = AfterIoError, !.last_io = "read_error"] }

\* The accept loop ending when a session returns an error.
ListenerAfterTask_propagate(l, t) == IF t.pc = "Failed" THEN "Stopped" ELSE l

\* main.rs:19-23: the task prints the error of its session; nothing of it
\* reaches the accept loop.
ListenerAfterTask(l, t) == l

ServerInit ==
    /\ listener = "Listening"
    /\ tasks = <<>>
    /\ pc = "main"
    /\ stream = <<>>
    /\ socket_in = <<>>
    /\ socket_out = <<>>
    /\ header_buf = <<>>
    /\ header_res = NoResult
    /\ incoming = <<>>
    /\ parsed = NoResult
    /\ received = <<>>
    /\ nreads = 0
    /\ last_io = "none"

\* main.rs:16-23, a connection accepted and its task spawned.
Accept(s) ==
    /\ listener = "Listening"
    /\ Len(tasks) < MaxConns
    /\ tasks' = Append(tasks, NewTask(s))
    /\ UNCHANGED <<listener, session_vars>>

\* main.rs:16, accept fails and `?` returns from main.
AcceptError ==
    /\ listener = "Listening"
    /\ listener' = "Stopped"
    /\ UNCHANGED <<tasks, session_vars>>

\* main.rs:8-9: main has returned and the runtime drops the task c, which
\* until then goes on running.
Cancel(c) ==
    /\ listener = "Stopped"
    /\ tasks[c].pc \notin {"Closed", "Failed", "Cancelled"}
    /\ tasks' = [tasks EXCEPT ![c].pc = "Cancelled"]
    /\ UNCHANGED <<listener, session_vars>>

\* The task c taking the step of its session to one of outcomes.
TaskStep(c, outcomes) ==
    \E t \in outcomes :
        /\ tasks' = [tasks EXCEPT ![c] = t]
        /\ listener' = ListenerAfterTask(listener, t)
        /\ UNCHANGED session_vars

TaskReadHeader(c) ==
    /\ tasks[c].pc = "AwaitingHeader"
    /\ TaskStep(c, ReadHeaderOutcomes(tasks[c]))

TaskWriteHeaderError(c) ==
    /\ tasks[c].pc = "HeaderErrorWrite"
    /\ TaskStep(c, WriteOutcomes(tasks[c], MsgInvalidHeader, "Failed"))

TaskReadFrame(c) ==
    /\ tasks[c].pc = "FramingLoop"
    /\ TaskStep(c, ReadFrameOutcomes(tasks[c]))

TaskWriteFrameReceived(c) ==
    /\ tasks[c].pc = "FrameReceivedWrite"
    /\ TaskStep(c, WriteOutcomes(tasks[c], MsgFrameReceived, AfterWrite))

TaskWriteInvalidFrame(c) ==
    /\ tasks[c].pc = "InvalidFrameWrite"
    /\ TaskStep(c, WriteOutcomes(tasks[c], MsgInvalidFrame, AfterWrite))

ServerNext ==
    \/ \E s \in ConnStreams : Accept(s)
    \/ AcceptError
    \/ \E c \in DOMAIN tasks : Cancel(c)
    \/ \E c \in DOMAIN tasks : TaskReadHeader(c)
    \/ \E c \in DOMAIN tasks : TaskWriteHeaderError(c)
    \/ \E c \in DOMAIN tasks : TaskReadFrame(c)
    \/ \E c \in DOMAIN tasks : TaskWriteFrameReceived(c)
    \/ \E c \in DOMAIN tasks : TaskWriteInvalidFrame(c)

SpecServer == ServerInit /\ [][ServerNext]_vars

---------------------------------------------------------------------------
(* The two parsers of protocol.rs called directly, as the unit tests of    *)
(* protocol.rs:73-118 call them.                                           *)

FrameTypes == {0, 1, 255}

Channels == {0, 1, 258, 65535}

PayloadBytes == {0, 10, 206}

RECURSIVE Payloads(_)
Payloads(n) ==
    IF n = 0
    THEN {<<>>}
    ELSE Payloads(n - 1)
         \cup {Append(p, b) : p \in Payloads(n - 1), b \in PayloadBytes}

Terminators == {FrameEnd, 0, 171, 205, 207}

\* Length fields far beyond the bytes that follow, up to 2^32 - 1.
HugeLengths ==
    { <<255, 255, 255, 255>>, <<255, 255, 255, 254>>, <<128, 0, 0, 0>>,
      <<127, 255, 255, 255>>, <<0, 1, 0, 0>> }

HugeInputs ==
    { <<1, 0, 1>> \o l \o t :
        l \in HugeLengths, t \in {<<>>, <<206>>, <<10, 206>>} }

\* Every encoding over the sets above, whole or cut short, the frame of
\* protocol.rs:85-104, and the headers with huge length fields.
FrameInputs ==
    {Encode(1, 1, <<10, 11, 12>>, FrameEnd)}
    \cup HugeInputs
    \cup UNION { {Take(Encode(t, c, p, e), n) : n \in 0..(Len(p) + 8)} :
                   t \in FrameTypes, c \in Channels,
                   p \in Payloads(MaxPayload), e \in Terminators }

\* A byte that differs from expected at each position.
other == <<88, 89, 90, 0, 9, 9, 0, 0>>

\* Every mix of expected and other, whole or cut short, and the input of
\* protocol.rs:81.
HeaderInputs ==
    {<<88, 89, 90, 0, 0, 9, 1>>}
    \cup { Take([i \in 1..8 |-> IF i \in S THEN other[i] ELSE expected[i]], n) :
              S \in SUBSET (1..8), n \in 0..8 }

CodecInit ==
    /\ \/ /\ pc = "CallFrame"
          /\ incoming \in FrameInputs
          /\ header_buf = <<>>
       \/ /\ pc = "CallHeader"
          /\ header_buf \in HeaderInputs
          /\ incoming = <<>>
    /\ stream = <<>>
    /\ socket_in = <<>>
    /\ socket_out = <<>>
    /\ header_res = NoResult
    /\ parsed = NoResult
    /\ received = <<>>
    /\ nreads = 0
    /\ last_io = "none"
    /\ listener = "none"
    /\ tasks = <<>>

CallParseFrame ==
    /\ pc = "CallFrame"
    /\ parsed' = parse_amqp_frame(incoming)
    /\ pc' = "FrameReturned"
    /\ UNCHANGED <<stream, socket_in, socket_out, header_buf, header_res,
                   incoming, received, nreads, last_io, server_vars>>

CallParseHeader ==
    /\ pc = "CallHeader"
    /\ header_res' = parse_amqp_header(header_buf)
    /\ pc' = "HeaderReturned"
    /\ UNCHANGED <<stream, socket_in, socket_out, header_buf, incoming,
                   parsed, received, nreads, last_io, server_vars>>

CodecNext == CallParseFrame \/ CallParseHeader

SpecCodec == CodecInit /\ [][CodecNext]_vars

---------------------------------------------------------------------------
(* Vocabulary of the properties.                                           *)

\* The bytes the peer sends after the 8 bytes of the handshake.
Body == Drop(stream, 8)

\* The session has just read and parsed, and is about to answer.
AfterRead == pc \in {"FrameReceivedWrite", "InvalidFrameWrite"}

\* The frames a byte sequence holds from its front: extraction repeated on
\* what follows each frame of 7 + payload_len + 1 bytes, until it fails.
RECURSIVE FramesOf(_)
FramesOf(b) ==
    LET r == parse_amqp_frame(b)
    IN  IF r.ok
        THEN <<r.frame>> \o FramesOf(Drop(b, 7 + Len(r.frame.payload) + 1))
        ELSE <<>>

RECURSIVE EncodedLen(_)
EncodedLen(fs) ==
    IF fs = <<>>
    THEN 0
    ELSE 7 + Len(Head(fs).payload) + 1 + EncodedLen(Tail(fs))

\* b is one or more valid frames back to back and nothing else.
WholeFrames(b) == b # <<>> /\ EncodedLen(FramesOf(b)) = Len(b)

\* What the session logs when it is handed b in a single read.
OneRead(b) == IF b = <<>> THEN <<>> ELSE Deliver(<<>>, parse_amqp_frame(b))

\* b is shorter than the 7-byte prefix, or than 7 + payload_len + 1.
Incomplete(b) ==
    \/ Len(b) < 7
    \/ LessThanLenPlusOne(Len(b) - 7, be_u32(b[4], b[5], b[6], b[7]))

\* b holds a whole header and payload, and a byte other than 0xCE after them.
BadTerminated(b) ==
    /\ ~Incomplete(b)
    /\ b[7 + be_u16(b[4], b[5]) * 65536 + be_u16(b[6], b[7]) + 1] # FrameEnd

IsPrefix(s, t) == Len(s) <= Len(t) /\ s = Take(t, Len(s))

Count(out, msg) == Cardinality({i \in DOMAIN out : out[i] = msg})

---------------------------------------------------------------------------
(* C1.  Chunk-boundary independence: the frames the session has emitted    *)
(* when the peer closes are those it emits when the same bytes arrive in   *)
(* one read, however the bytes were split over reads.                      *)
C1_ChunkIndependence ==
    pc = "Closed" => received = OneRead(Body)

(* C2.  A read that holds two or more valid frames back to back emits all  *)
(* of them, in order.                                                      *)
C2_AllFramesOfARead ==
    (AfterRead /\ WholeFrames(incoming) /\ Len(FramesOf(incoming)) >= 2)
        => Deliver(<<>>, parsed) = FramesOf(incoming)

(* C3.  Idempotent suspension: a single valid frame that arrives split     *)
(* over several reads is emitted exactly once, equal to the unsplit frame, *)
(* when its last bytes arrive.                                             *)
C3_SplitFrameEmitted ==
    (pc = "Closed" /\ WholeFrames(Body) /\ Len(FramesOf(Body)) = 1
         /\ nreads > 1)
        => received = FramesOf(Body)

(* C4.  An incomplete frame is not an error: the first read of the loop,   *)
(* when it holds fewer bytes than a complete frame needs, is not answered  *)
(* with the error acknowledgment.                                          *)
C4_IncompleteIsNoError ==
    (nreads = 1 /\ Incomplete(incoming)) => pc # "InvalidFrameWrite"

(* C5.  After a bad terminator the session fails: from the write of the    *)
(* error acknowledgment it goes to Failed and never back to a read.        *)
C5_FailedAfterBadTerminator ==
    [][(pc = "InvalidFrameWrite" /\ parsed.err = ErrFrameEnd)
           => pc' = "Failed"]_vars

(* C6.  Exactly once and in order: the frames delivered are always a       *)
(* prefix of the frames of the stream, each delivered frame is answered by *)
(* one success acknowledgment before the next is delivered, and when the   *)
(* peer closes after sending only valid frames every one was delivered.    *)
C6_ExactlyOnceInOrder ==
    /\ IsPrefix(received, FramesOf(Body))
    /\ Count(socket_out, MsgFrameReceived) <= Len(received)
    /\ Len(received) <= Count(socket_out, MsgFrameReceived) + 1
    /\ (pc = "Closed" /\ WholeFrames(Body)) => received = FramesOf(Body)

(* C7.  Round trip: the encoding of any frame type, channel and payload,   *)
(* the empty payload included, followed by 0xCE parses to a frame with     *)
(* exactly that type, channel and payload.                                 *)
C7_RoundTrip ==
    pc = "FrameReturned" =>
        \A t \in FrameTypes, c \in Channels,
           p \in Payloads(MaxPayload) \cup {<<10, 11, 12>>} :
            incoming = Encode(t, c, p, FrameEnd)
                => parsed = Ok(AmqpFrame(t, c, p))

C7_Witness ==
    /\ pc = "FrameReturned"
    /\ incoming = <<1, 0, 1, 0, 0, 0, 3, 10, 11, 12, 206>>
    /\ parsed.ok
    /\ parsed.frame = AmqpFrame(1, 1, <<10, 11, 12>>)

(* C8.  A read whose byte after header and payload is not 0xCE fails to    *)
(* decode and emits no frame; a read that failed to decode is answered     *)
(* with the error acknowledgment and adds nothing to the frames delivered. *)
C8_BadTerminatorRejected ==
    /\ (AfterRead /\ BadTerminated(incoming))
           => (~parsed.ok /\ parsed.frame = NoFrame)
    /\ (AfterRead /\ ~parsed.ok)
           => /\ pc = "InvalidFrameWrite"
              /\ Len(received) = Count(socket_out, MsgFrameReceived)
    /\ pc = "FrameReceivedWrite" => parsed.ok

C8_Witness ==
    /\ pc = "InvalidFrameWrite"
    /\ BadTerminated(incoming)
    /\ parsed.err = ErrFrameEnd
    /\ received # <<>>

(* C9.  parse_amqp_header on 8 bytes succeeds exactly when they are the    *)
(* literal and otherwise fails with the mismatch error; on fewer than 8    *)
(* bytes it fails with the too-short error.                                *)
C9_HeaderComparison ==
    pc = "HeaderReturned" =>
        /\ Len(header_buf) = 8 => (header_res.ok <=> header_buf = expected)
        /\ (Len(header_buf) = 8 /\ header_buf # expected)
               => header_res = Err(ErrHeaderInvalid)
        /\ Len(header_buf) < 8 => header_res = Err(ErrHeaderTooShort)

C9_Witness ==
    /\ pc = "HeaderReturned"
    /\ header_buf = <<65, 77, 81, 80, 0, 0, 9, 0>>
    /\ header_res = Err(ErrHeaderInvalid)

(* C10.  The handshake comes first: the session parses no frame, delivers  *)
(* none and writes no frame acknowledgment unless the first 8 bytes of the *)
(* connection were read and are the literal; it enters the loop with       *)
(* exactly those 8 bytes consumed; after a failed validation it never      *)
(* reads or parses a frame.                                                *)
C10_HandshakeFirst ==
    /\ (\/ pc \in {"FramingLoop", "FrameReceivedWrite", "InvalidFrameWrite",
                   "Closed"}
        \/ nreads > 0
        \/ parsed # NoResult
        \/ received # <<>>
        \/ Count(socket_out, MsgFrameReceived) > 0
        \/ Count(socket_out, MsgInvalidFrame) > 0)
           => /\ header_res.ok
              /\ header_buf = Take(stream, 8)
              /\ header_buf = expected
              /\ Len(socket_in) <= Len(stream) - 8
    /\ (pc = "FramingLoop" /\ nreads = 0) => socket_in = Drop(stream, 8)
    /\ (header_res # NoResult /\ ~header_res.ok)
           => /\ pc \in {"HeaderErrorWrite", "Failed"}
              /\ nreads = 0
              /\ parsed = NoResult
              /\ received = <<>>

C10_Witness ==
    /\ pc = "FrameReceivedWrite"
    /\ nreads = 1
    /\ header_buf = expected
    /\ received # <<>>

---------------------------------------------------------------------------
(* Vocabulary of the properties of the session's control flow.             *)

Terminal == {"Closed", "Failed"}

\* The responses written in the framing loop.
FrameResponses ==
    Count(socket_out, MsgFrameReceived) + Count(socket_out, MsgInvalidFrame)

ResponseTo(res) == IF res.ok THEN MsgFrameReceived ELSE MsgInvalidFrame

(* C11.  In AwaitingHeader every failure that leaves the connection        *)
(* writable, a short read of the header as well as a mismatch, leads to    *)
(* the write of the diagnostic response before the session fails.          *)
C11_HeaderFailureDiagnosed ==
    [][(pc = "AwaitingHeader" /\ pc' \notin {"AwaitingHeader", "FramingLoop"}
            /\ last_io' # "read_error")
           => pc' = "HeaderErrorWrite"]_vars

(* C12.  A zero-length read in the framing loop closes the session: it     *)
(* goes to Closed, not Failed, writes nothing, delivers nothing, and from  *)
(* Closed nothing is read or written any more.                             *)
C12_EofCloses ==
    /\ [][(pc = "FramingLoop" /\ last_io' = "eof")
              => /\ pc' = "Closed"
                 /\ socket_in = <<>>
                 /\ UNCHANGED <<socket_in, socket_out, received, nreads,
                                incoming, parsed>>]_vars
    /\ [][(pc = "Closed") => (vars' = vars)]_vars
    /\ [](pc = "Closed" => last_io = "eof")

C12_Witness ==
    /\ pc = "Closed"
    /\ last_io = "eof"
    /\ nreads > 0
    /\ received # <<>>

(* C14.  Closed and Failed are terminal: every route (peer EOF, header     *)
(* failure, read error, write error) ends in one of them, and from there   *)
(* the session reads nothing, writes nothing and delivers nothing, unread  *)
(* and partly received bytes included.                                     *)
C14_TerminalStates ==
    /\ [][(pc \in Terminal) => (vars' = vars)]_vars
    /\ [](last_io = "eof" => pc \in Terminal)
    /\ [](last_io \in {"read_error", "write_error"} => pc = "Failed")
    /\ []((header_res # NoResult /\ ~header_res.ok /\ last_io = "write")
              => pc = "Failed")

C14_Witness ==
    /\ pc = "Failed"
    /\ last_io = "write_error"
    /\ nreads > 0
    /\ socket_in # <<>>
    /\ ~parsed.ok

(* C16, as claimed.  The responses written in the framing loop number the  *)
(* positive-length reads completed, or one less while a write is pending.  *)
C16_OneResponsePerRead ==
    FrameResponses = nreads - (IF AfterRead THEN 1 ELSE 0)

(* C16, amended.  Every positive-length read is answered by one response,  *)
(* success or error as the parse went, before the next read; the responses *)
(* written number the reads completed, or one less while the write is      *)
(* pending or after it failed and ended the session.                       *)
C16_OneResponsePerReadUnlessWriteFails ==
    /\ FrameResponses =
           nreads - (IF \/ AfterRead
                        \/ (pc = "Failed" /\ last_io = "write_error"
                                /\ nreads > 0)
                     THEN 1 ELSE 0)
    /\ (pc = "FramingLoop" /\ nreads > 0)
           => socket_out[Len(socket_out)] = ResponseTo(parsed)
    /\ AfterRead => pc = AfterParse(parsed)

C16_Witness ==
    /\ pc = "FramingLoop"
    /\ nreads = 2
    /\ Count(socket_out, MsgFrameReceived) = 1
    /\ Count(socket_out, MsgInvalidFrame) = 1

---------------------------------------------------------------------------
(* Vocabulary of the properties of the length field.                       *)

\* The length field of an input of at least 7 bytes.
LengthField(b) == be_u32(b[4], b[5], b[6], b[7])

IsMaxU32(l) == l.hi = 65535 /\ l.lo = 65535

\* The outcomes an incomplete or badly terminated frame has.
OrdinaryErrors == {ErrInputTooShort, ErrFrameHeader, ErrNotEnough, ErrFrameEnd}

(* C13.  A header whose payload_len exceeds the maximum is rejected with   *)
(* an error of its own, unlike the incomplete and bad-terminator outcomes; *)
(* whatever the maximum is, 2^32 - 1 is the largest length a header can    *)
(* carry and is what a cap would have to reject first.                     *)
C13_PayloadTooLarge ==
    (pc = "FrameReturned" /\ Len(incoming) >= 8
         /\ IsMaxU32(LengthField(incoming)))
        => (~parsed.ok /\ parsed.err \notin OrdinaryErrors)

(* C18.  parse_amqp_frame never reads outside its input: whatever the      *)
(* length of the input and the value of payload_len, up to 2^32 - 1, the   *)
(* split and the access to the terminator are reached only with at least   *)
(* payload_len + 1 bytes after the 7-byte prefix, and every outcome is a   *)
(* returned frame or a returned error.                                     *)
C18_NoOutOfBounds ==
    pc = "FrameReturned" =>
        /\ parsed.err \notin {PanicSplitAt, PanicIndex}
        /\ parsed.ok \/ parsed.err \in OrdinaryErrors
        /\ (parsed.ok \/ parsed.err = ErrFrameEnd)
               => /\ Len(incoming) >= 8
                  /\ LengthField(incoming).hi = 0
                  /\ Len(incoming) - 7 >= LengthField(incoming).lo + 1

C18_Witness ==
    /\ pc = "FrameReturned"
    /\ incoming = <<1, 0, 1, 255, 255, 255, 255, 206>>
    /\ parsed = Err(ErrNotEnough)

(* C19.  The session never emits a frame larger than its read buffer: a    *)
(* read hands parse_amqp_frame at most 4096 bytes, every frame delivered   *)
(* and acknowledged has a payload of at most 4088 bytes, and the frame     *)
(* whose encoding is 4097 bytes long is never delivered, however the reads *)
(* cut the stream.                                                         *)
C19_AckedFrameFitsBuffer ==
    /\ Len(incoming) <= MaxAckedPayload + 8
    /\ \A i \in DOMAIN received : Len(received[i].payload) <= MaxAckedPayload
    /\ \A i \in DOMAIN received : received[i] # OversizedFrame
    /\ Count(socket_out, MsgFrameReceived) <= Len(received)

C19_Witness ==
    /\ stream = expected \o EncodeFrame(FullFrame) \o EncodeFrame(OversizedFrame)
    /\ socket_in = <<>>
    /\ pc = "Closed"
    /\ nreads = 3
    /\ received = <<FullFrame>>
    /\ Count(socket_out, MsgFrameReceived) = 1

---------------------------------------------------------------------------
(* Vocabulary of the properties of the tasks.                              *)

TaskAfterRead(t) == t.pc \in {"FrameReceivedWrite", "InvalidFrameWrite"}

TaskFailed(t) == t.pc = "Failed"

(* C15.  Connection isolation: a step of the session of one connection,    *)
(* its failure on a header error, a decode error or a transport error      *)
(* included, changes the state, the delivered frames and the responses of  *)
(* no other connection and leaves the accept loop as it was; a step of the *)
(* accept loop changes no session already running.  This holds for every   *)
(* interleaving of the tasks.                                              *)
C15_ConnectionIsolation ==
    [][(\A c \in DOMAIN tasks :
          /\ c \in DOMAIN tasks'
          /\ (tasks'[c] # tasks[c] /\ tasks'[c].pc # "Cancelled")
                 => /\ listener' = listener
                    /\ DOMAIN tasks' = DOMAIN tasks
                    /\ \A d \in DOMAIN tasks \ {c} : tasks'[d] = tasks[d]
          /\ (listener = "Listening" /\ listener' = "Listening")
                 => tasks'[c].pc # "Cancelled")]_vars

C15_Witness ==
    /\ listener = "Listening"
    /\ Len(tasks) = 2
    /\ TaskFailed(tasks[1])
    /\ tasks[1].last_io = "write_error"
    /\ tasks[2].pc = "Closed"
    /\ tasks[2].received = <<AmqpFrame(1, 1, <<>>)>>
    /\ tasks[2].socket_out = <<MsgInvalidFrame, MsgFrameReceived>>

(* C17.  Frame decoding in the session is memoryless across reads: the     *)
(* outcome of a read (the frame or the error, and the response that will   *)
(* be written) is parse_amqp_frame of the bytes of that read alone, so two *)
(* sessions whose current reads carry the same bytes have the same outcome *)
(* whatever they read and wrote before.                                    *)
C17_MemorylessAcrossReads ==
    /\ \A c \in DOMAIN tasks :
          TaskAfterRead(tasks[c])
              => /\ tasks[c].parsed = parse_amqp_frame(tasks[c].incoming)
                 /\ tasks[c].pc = AfterParse(tasks[c].parsed)
    /\ \A c, d \in DOMAIN tasks :
          (/\ TaskAfterRead(tasks[c])
           /\ TaskAfterRead(tasks[d])
           /\ tasks[c].incoming = tasks[d].incoming)
              => /\ tasks[c].parsed = tasks[d].parsed
                 /\ tasks[c].pc = tasks[d].pc

C17_Witness ==
    /\ Len(tasks) = 2
    /\ tasks[1].pc = "FrameReceivedWrite"
    /\ tasks[2].pc = "FrameReceivedWrite"
    /\ tasks[1].incoming = Encode(1, 1, <<>>, FrameEnd)
    /\ tasks[2].incoming = tasks[1].incoming
    /\ tasks[1].socket_out = <<>>
    /\ tasks[2].socket_out = <<MsgInvalidFrame>>

===========================================================================
